---- MODULE Spec2Model ----
(***************************************************************************)
(* A model of devsecrets: the identity sidecar store and the root/child    *)
(* directory lifecycle of devsecrets-core, and the read-only accessor of   *)
(* the devsecrets crate (path validation, extension check, reads).         *)
(*                                                                         *)
(* Strings are modelled by their structure.  A path string is the          *)
(* sequence of its '/'-separated segments, and a segment is the sequence   *)
(* of its '.'-separated parts, so "a/b.json" is << <<"a">>, <<"b","json">> *)
(* >>, "" is << <<"">> >>, "." is << <<"","">> >> and "/x" is              *)
(* << <<"">>, <<"x">> >>.                                                  *)
(***************************************************************************)
EXTENDS Integers, Sequences, FiniteSets, TLC

\* ------------------------------------------------------------------ bounds
NumUuids == 2
MaxSegs == 2

Uuids == 1..NumUuids

\* ------------------------------------------------------- program constants
DEVSECRETS_CONFIG_DIR == <<"rust-devsecrets">>
DEVSECRETS_UUID_FILE == <<"", "devsecrets_uuid", "txt">>

\* ------------------------------------------------------------ path strings
EmptySeg == <<"">>
DotSeg == <<"", "">>
DotDotSeg == <<"", "", "">>

\* The segments request paths are built from.
SegNames ==
    { EmptySeg, DotSeg, DotDotSeg,
      <<"token", "json">>, <<"a", "tar", "json">>, <<"secret", "txt">>,
      <<"x", "JSON">>, <<"noext">>, <<"", "json">>, <<"sub">> }

SeqsUpTo(S, n) == UNION { [1..k -> S] : k \in 1..n }

\* A request path: the platform it is parsed on, whether it starts with a
\* drive prefix ("C:", Windows only), and its '/'-separated segments.
ReqPaths ==
    { [windows |-> w, prefix |-> x, segs |-> s] :
        w \in BOOLEAN, x \in BOOLEAN, s \in SeqsUpTo(SegNames, MaxSegs) }
    \ { p \in [windows : {FALSE}, prefix : {TRUE},
               segs : SeqsUpTo(SegNames, MaxSegs)] : TRUE }

RelPath(s) == [windows |-> FALSE, prefix |-> FALSE, segs |-> s]

has_root(p) == Len(p.segs) >= 2 /\ p.segs[1] = EmptySeg

is_absolute(p) ==
    IF p.windows THEN p.prefix /\ has_root(p) ELSE has_root(p)

Comp(k, n) == [kind |-> k, name |-> n]

RECURSIVE BodyComponents(_, _)
BodyComponents(segs, i) ==
    IF i > Len(segs) THEN <<>>
    ELSE LET s == segs[i]
             rest == BodyComponents(segs, i + 1)
         IN  IF s = EmptySeg THEN rest
             ELSE IF s = DotSeg
                  THEN IF i = 1 THEN <<Comp("CurDir", <<>>)>> \o rest ELSE rest
             ELSE IF s = DotDotSeg THEN <<Comp("ParentDir", <<>>)>> \o rest
             ELSE <<Comp("Normal", s)>> \o rest

\* Path::components(): the prefix, the root marker, then the segments with
\* repeated separators and non-leading "." dropped.
components(p) ==
    (IF p.prefix THEN <<Comp("Prefix", <<>>)>> ELSE <<>>)
    \o (IF has_root(p) THEN <<Comp("RootDir", <<>>)>> ELSE <<>>)
    \o BodyComponents(p.segs, 1)

None == [some |-> FALSE, val |-> <<>>]
Some(v) == [some |-> TRUE, val |-> v]

\* Path::file_name(): the last component when it is a normal one.
file_name(p) ==
    LET cs == components(p)
    IN  IF cs # <<>> /\ cs[Len(cs)].kind = "Normal"
        THEN Some(cs[Len(cs)].name) ELSE None

\* Path::extension(): what follows the last '.' of the file name, unless the
\* name has no '.' or only a leading one.
extension(p) ==
    LET f == file_name(p)
    IN  IF ~f.some THEN None
        ELSE LET parts == f.val
                 n == Len(parts)
             IN  IF n = 1 \/ (n = 2 /\ parts[1] = "") THEN None
                 ELSE Some(parts[n])

\* PathBuf::join of a directory and a relative path without prefix or root:
\* the directory followed by the segments as written.
join(dir, segs) == dir \o segs

\* PathBuf::join of a directory and any path p: a p with a root replaces the
\* directory.
join_path(dir, p) == IF has_root(p) THEN p.segs ELSE join(dir, p.segs)

\* The entry a path names: empty and "." segments name no entry, ".." names
\* the parent of what precedes it.
RECURSIVE Walk(_)
Walk(q) ==
    IF q = <<>> THEN <<>>
    ELSE LET up == Walk(SubSeq(q, 1, Len(q) - 1))
             s == q[Len(q)]
         IN  IF s \in {EmptySeg, DotSeg} THEN up
             ELSE IF s = DotDotSeg
                  THEN IF up = <<>> THEN <<>>
                       ELSE SubSeq(up, 1, Len(up) - 1)
             ELSE up \o <<s>>

\* The filesystem's walk of a joined path that holds no "..": empty and "."
\* segments name no entry.
Locate(q) == SelectSeq(q, LAMBDA s : s # EmptySeg /\ s # DotSeg)

\* A path ending in '/' or "/." names a directory.
MustBeDir(q) == q # <<>> /\ q[Len(q)] \in {EmptySeg, DotSeg}

\* ------------------------------------------------------------- results
Ok(v) == [kind |-> "Ok", val |-> v]
Err(k) == [kind |-> k, val |-> <<>>]

\* ------------------------------------------------------------- identities
\* The text forms a sidecar file can hold for the UUID numbered n.
Render(n, form) ==
    CASE form = "hyphenated_lower" ->
            "67e55044-10b1-426f-9247-bb680e5fe0c" \o ToString(n)
      [] form = "hyphenated_upper" ->
            "67E55044-10B1-426F-9247-BB680E5FE0C" \o ToString(n)
      [] form = "simple_lower" ->
            "67e5504410b1426f9247bb680e5fe0c" \o ToString(n)
      [] form = "newline_terminated" ->
            "67e55044-10b1-426f-9247-bb680e5fe0c" \o ToString(n) \o "\n"

ParsedForms == {"hyphenated_lower", "hyphenated_upper", "simple_lower"}
InvalidUtf8 == "<bytes ff fe>"
IsUtf8(t) == t # InvalidUtf8

SidecarTexts ==
    { Render(n, f) : n \in Uuids, f \in ParsedForms \cup {"newline_terminated"} }
    \cup {"not-a-uuid", "", InvalidUtf8}

\* Uuid::parse_str: the UUID a text denotes, in any of the accepted forms.
parse_str(t) ==
    IF \E n \in Uuids, f \in ParsedForms : Render(n, f) = t
    THEN Some(CHOOSE n \in Uuids : \E f \in ParsedForms : Render(n, f) = t)
    ELSE None

from_uuid(n) == Render(n, "hyphenated_lower")

new_unique(n) == Render(n, "hyphenated_lower")

\* The identity strings of the model: canonical renderings.
Ids == { from_uuid(n) : n \in Uuids }

\* DevsecretsId(s): the tuple struct's field is public and takes any string.
DevsecretsId(s) == s

\* Identities a caller can construct: canonical ones and other strings.
ConstructedIds ==
    { DevsecretsId(s) :
        s \in Ids \cup {Render(1, "hyphenated_upper"), "..", "", "/etc"} }

\* id_str() as the path it is when joined to a directory.
id_path(id) ==
    RelPath(CASE id = ".." -> <<DotDotSeg>>
              [] id = "" -> <<EmptySeg>>
              [] id = "/etc" -> <<EmptySeg, <<"etc">>>>
              [] OTHER -> << <<id>> >>)

\* read_uuid taking an unparseable sidecar for a missing one.
read_uuid_lenient(sc) ==
    IF ~sc.some THEN Ok(None)
    ELSE IF ~IsUtf8(sc.val) THEN Ok(None)
    ELSE LET u == parse_str(sc.val)
         IN  IF u.some THEN Ok(Some(u.val)) ELSE Ok(None)

read_uuid(sc) ==
    IF ~sc.some THEN Ok(None)
    ELSE IF ~IsUtf8(sc.val) THEN Err("InvalidData")
    ELSE LET u == parse_str(sc.val)
         IN  IF u.some THEN Ok(Some(u.val)) ELSE Err("InvalidData")

read_devsecrets_id(sc) ==
    LET r == read_uuid(sc)
    IN  IF r.kind # "Ok" THEN r
        ELSE IF r.val.some THEN Ok(Some(from_uuid(r.val.val))) ELSE Ok(None)

\* ensure_devsecrets_id writing a new identity whatever the sidecar holds.
ensure_devsecrets_id_always_new(sc, n) ==
    LET r == read_devsecrets_id(sc)
    IN  IF r.kind # "Ok" THEN [res |-> r, sidecar |-> sc, writes |-> 0]
        ELSE [res |-> Ok(new_unique(n)), sidecar |-> Some(new_unique(n)),
              writes |-> 1]

\* ensure_devsecrets_id with n the UUID new_unique would draw: the result,
\* the sidecar afterwards and the number of writes made.
ensure_devsecrets_id(sc, n) ==
    LET r == read_devsecrets_id(sc)
    IN  IF r.kind # "Ok" THEN [res |-> r, sidecar |-> sc, writes |-> 0]
        ELSE IF r.val.some
             THEN [res |-> Ok(r.val.val), sidecar |-> sc, writes |-> 0]
             ELSE [res |-> Ok(new_unique(n)),
                   sidecar |-> Some(new_unique(n)), writes |-> 1]

\* -------------------------------------------------------------- filesystem
\* An entry whose stat fails with an I/O error (for example EACCES because
\* its parent directory denies search).
StatDenied == "stat denied"

\* A filesystem maps each existing path to "dir", to its file content, or to
\* StatDenied.
Kind(f, q) ==
    IF Walk(q) = <<>> THEN "dir"
    ELSE IF Walk(q) \in DOMAIN f THEN f[Walk(q)] ELSE "absent"

\* Path::metadata: the entry's kind, or the error of the stat.
metadata(f, q) ==
    IF Kind(f, q) = "absent" THEN Err("NotFound")
    ELSE IF Kind(f, q) = StatDenied THEN Err("PermissionDenied")
    ELSE Ok(Kind(f, q))

\* Path::exists and Path::is_dir answer false whenever the stat fails.
exists(f, q) == metadata(f, q).kind = "Ok"
is_dir(f, q) == metadata(f, q).kind = "Ok" /\ metadata(f, q).val = "dir"
IsFile(f, q) == metadata(f, q).kind = "Ok" /\ metadata(f, q).val # "dir"

\* Creating an entry and losing every other one.
put_alone(f, q, k) == (Walk(q) :> k)

Put(f, q, k) == (Walk(q) :> k) @@ f

Parent(q) == SubSeq(q, 1, Len(q) - 1)

\* mkdir(2)
mkdir(f, q) ==
    IF Kind(f, q) = StatDenied \/ Kind(f, Parent(q)) = StatDenied
    THEN [res |-> Err("PermissionDenied"), fs |-> f]
    ELSE IF exists(f, q) THEN [res |-> Err("AlreadyExists"), fs |-> f]
    ELSE IF ~exists(f, Parent(q)) THEN [res |-> Err("NotFound"), fs |-> f]
    ELSE IF ~is_dir(f, Parent(q)) THEN [res |-> Err("NotADirectory"), fs |-> f]
    ELSE [res |-> Ok(<<>>), fs |-> Put(f, q, "dir")]

\* A failed mkdir always reported as the error it gave (plain create_dir).
report_mkdir_error(f, q, e) == e

\* std::fs::create_dir_all treats a failed mkdir as success when the
\* directory is there: the answer to mkdir's error e for path q.
tolerate_existing(f, q, e) == IF is_dir(f, q) THEN Ok(<<>>) ELSE e

\* std::fs::create_dir_all, run without interruption.
RECURSIVE create_dir_all(_, _)
create_dir_all(f, q) ==
    IF q = <<>> THEN [res |-> Ok(<<>>), fs |-> f]
    ELSE LET m == mkdir(f, q)
         IN  IF m.res.kind = "Ok" THEN m
             ELSE IF m.res.kind # "NotFound"
                  THEN [res |-> tolerate_existing(f, q, m.res), fs |-> f]
             ELSE LET up == create_dir_all(f, Parent(q))
                  IN  IF up.res.kind # "Ok" THEN up
                      ELSE LET m2 == mkdir(up.fs, q)
                           IN  IF m2.res.kind = "Ok" THEN m2
                               ELSE [res |-> tolerate_existing(up.fs, q, m2.res),
                                     fs |-> up.fs]

\* ---------------------------------------------------------- root directory
\* with_config_root: the handle's config_dir, None, or an error.
with_config_root(f, root) ==
    LET config_dir == join(root, <<DEVSECRETS_CONFIG_DIR>>)
    IN  IF ~exists(f, config_dir) THEN Ok(None)
        ELSE IF ~is_dir(f, config_dir) THEN Err("AlreadyExists")
        ELSE Ok(Some(config_dir))

\* DevsecretsRootDir::new with cfg the answer of dirs::config_dir().
new(f, cfg) ==
    IF ~cfg.some THEN Err("NotFound") ELSE with_config_root(f, cfg.val)

ensure_with_config_root(f, root) ==
    IF metadata(f, root).kind # "Ok" THEN [res |-> metadata(f, root), fs |-> f]
    ELSE IF ~is_dir(f, root) THEN [res |-> Err("AlreadyExists"), fs |-> f]
    ELSE LET config_dir == join(root, <<DEVSECRETS_CONFIG_DIR>>)
             c == create_dir_all(f, config_dir)
         IN  IF c.res.kind # "Ok" THEN c
             ELSE [res |-> Ok(config_dir), fs |-> c.fs]

ensure_new(f, cfg) ==
    IF ~cfg.some THEN [res |-> Err("NotFound"), fs |-> f]
    ELSE ensure_with_config_root(f, cfg.val)

\* get_child creating the directory it does not find.
get_child_creating(f, config_dir, id) ==
    LET child_dir == join_path(config_dir, id_path(id))
        c == create_dir_all(f, child_dir)
    IN  IF c.res.kind # "Ok" THEN c
        ELSE [res |-> Ok(Some(child_dir)), fs |-> c.fs]

\* get_child without the check that the entry found is a directory.
get_child_any_entry(f, config_dir, id) ==
    LET child_dir == join_path(config_dir, id_path(id))
    IN  IF ~exists(f, child_dir) THEN [res |-> Ok(None), fs |-> f]
        ELSE [res |-> Ok(Some(child_dir)), fs |-> f]

\* get_child on the handle whose config_dir is given.
get_child(f, config_dir, id) ==
    LET child_dir == join_path(config_dir, id_path(id))
    IN  IF ~exists(f, child_dir) THEN [res |-> Ok(None), fs |-> f]
        ELSE IF ~is_dir(f, child_dir)
             THEN [res |-> Err("AlreadyExists"), fs |-> f]
        ELSE [res |-> Ok(Some(child_dir)), fs |-> f]

\* ensure_child creating the directory under another name than get_child
\* looks up.
ensure_child_other_name(f, config_dir, id) ==
    LET child_dir == join(config_dir, <<<<id, "d">>>>)
        c == create_dir_all(f, child_dir)
    IN  IF c.res.kind # "Ok" THEN c
        ELSE [res |-> Ok(child_dir), fs |-> c.fs]

ensure_child(f, config_dir, id) ==
    LET child_dir == join_path(config_dir, id_path(id))
        c == create_dir_all(f, child_dir)
    IN  IF c.res.kind # "Ok" THEN c
        ELSE [res |-> Ok(child_dir), fs |-> c.fs]

\* ------------------------------------------------------------------ formats
JsonFormat == "JsonFormat"
Formats == {JsonFormat}

\* Format::extension
format_extension(fmt) == "json"

\* The contents a secret file can have.
FileContents ==
    {"{\"key\":\"abc\"}", "{\"key\":\"xyz\"}", "not json", InvalidUtf8}

\* Format::deserialize into a struct with one string field `key`.
deserialize(fmt, content) ==
    CASE content = "{\"key\":\"abc\"}" -> Ok([key |-> "abc"])
      [] content = "{\"key\":\"xyz\"}" -> Ok([key |-> "xyz"])
      [] OTHER -> Err("ParseError")

\* The JSON text a person stores for a value.
serialize(v) == "{\"key\":\"" \o v.key \o "\"}"

\* ----------------------------------------------------------------- accessor
FileError(k) == [kind |-> "FileError", val |-> k]

\* check_extension comparing without regard to case.
check_extension_caseless(p, ext) ==
    LET e == extension(p)
        lower(x) == IF x = "JSON" THEN "json" ELSE x
    IN  IF ~(e.some /\ lower(e.val) = ext) THEN Err("InvalidExtension")
        ELSE Ok(<<>>)

check_extension(p, ext) ==
    LET e == extension(p)
    IN  IF ~(e.some /\ e.val = ext) THEN Err("InvalidExtension") ELSE Ok(<<>>)

\* DevSecrets::from_id with cfg the answer of dirs::config_dir().
from_id(f, cfg, id) ==
    LET root == new(f, cfg)
    IN  IF root.kind # "Ok" THEN [res |-> Err("IoError"), fs |-> f]
        ELSE IF ~root.val.some
             THEN [res |-> Err("DirectoryNotInitialized"), fs |-> f]
        ELSE LET child == get_child(f, root.val.val, id)
             IN  IF child.res.kind # "Ok"
                 THEN [res |-> Err("IoError"), fs |-> child.fs]
                 ELSE IF ~child.res.val.some
                      THEN [res |-> Err("DirectoryNotInitialized"),
                            fs |-> child.fs]
                 ELSE [res |-> Ok(child.res.val.val), fs |-> child.fs]

\* get_relative_path without its walk of the components.
get_relative_path_absolute_only(dir, p) ==
    IF is_absolute(p) THEN Err("InvalidRelativePath")
    ELSE Ok(join(dir, p.segs))

get_relative_path(dir, p) ==
    IF is_absolute(p) THEN Err("InvalidRelativePath")
    ELSE IF \E i \in 1..Len(components(p)) : components(p)[i].kind # "Normal"
         THEN Err("InvalidRelativePath")
    ELSE Ok(join(dir, p.segs))

Call(c, q) == [call |-> c, path |-> q]

\* std::fs::File::open of the joined path q: the entry opened, or the error.
\* Opening a directory for reading succeeds except on Windows.
file_open(f, q, windows) ==
    LET k == Kind(f, Locate(q))
    IN  IF k = "absent" THEN FileError("NotFound")
        ELSE IF k = StatDenied THEN FileError("PermissionDenied")
        ELSE IF k = "dir"
             THEN IF windows THEN FileError("PermissionDenied")
                  ELSE Ok(Locate(q))
        ELSE IF MustBeDir(q) THEN FileError("NotADirectory")
        ELSE Ok(Locate(q))

\* std::fs::read of the joined path q.
fs_read(f, q, windows) ==
    LET o == file_open(f, q, windows)
    IN  IF o.kind # "Ok" THEN o
        ELSE IF is_dir(f, o.val) THEN FileError("IsADirectory")
        ELSE Ok(Kind(f, o.val))

\* Each accessor read gives its result, the filesystem calls it made and the
\* filesystem afterwards.
Outcome(r, c, f) == [res |-> r, calls |-> c, fs |-> f]

make_reader_inner(f, dir, p) ==
    LET fullpath == get_relative_path(dir, p)
    IN  IF fullpath.kind # "Ok" THEN Outcome(fullpath, <<>>, f)
        ELSE Outcome(file_open(f, fullpath.val, p.windows),
                     <<Call("open", fullpath.val)>>, f)

read(f, dir, p) ==
    LET fullpath == get_relative_path(dir, p)
    IN  IF fullpath.kind # "Ok" THEN Outcome(fullpath, <<>>, f)
        ELSE Outcome(fs_read(f, fullpath.val, p.windows),
                     <<Call("read", fullpath.val)>>, f)

read_str(f, dir, p) ==
    LET contents == read(f, dir, p)
    IN  IF contents.res.kind # "Ok" THEN contents
        ELSE IF ~IsUtf8(contents.res.val)
             THEN Outcome(Err("ParseError"), contents.calls, contents.fs)
        ELSE contents

into_value(f, dir, p, fmt) ==
    LET chk == check_extension(p, format_extension(fmt))
    IN  IF chk.kind # "Ok" THEN Outcome(chk, <<>>, f)
        ELSE LET rd == make_reader_inner(f, dir, p)
             IN  IF rd.res.kind # "Ok" THEN rd
                 ELSE IF is_dir(rd.fs, rd.res.val)
                      THEN Outcome(Err("ParseError"), rd.calls, rd.fs)
                 ELSE Outcome(deserialize(fmt, Kind(rd.fs, rd.res.val)),
                              rd.calls, rd.fs)

\* -------------------------------------------------------------------- state
VARIABLES
    cfg,        \* what dirs::config_dir() answers: None or Some(path)
    fs,         \* the filesystem under the per-user configuration root
    sidecar,    \* per manifest directory, its sidecar file: None or Some(text)
    writes,     \* per manifest directory, how often its sidecar was written
    issued,     \* per manifest directory, the identity first returned for it
    roots,      \* the DevsecretsRootDir handles obtained (their config_dir)
    accessors,  \* the DevSecrets accessors obtained (their directory)
    ensured,    \* <<id, path>> for each successful ensure_child
    proc,       \* per process, the ensure_child call it is running step by step
                \* (fresh: the child directory was missing when it began)
    req,        \* the request path a read specification applies the reads to
    last        \* the last completed operation: arguments, result, fs calls

store == <<sidecar, writes, issued>>
handles == <<roots, accessors, ensured>>
aux == <<proc, req>>
vars ==
    <<cfg, fs, sidecar, writes, issued, roots, accessors, ensured, proc, req,
      last>>

ManifestDirs == {"crate_a", "crate_b"}
ThisCrate == "crate_a"
Procs == {"p1", "p2"}

ConfigRoot == << <<"", "config">> >>
ReservedDir == join(ConfigRoot, <<DEVSECRETS_CONFIG_DIR>>)
ChildPath(id) == join(ReservedDir, <<<<id>>>>)

EmptyFs == [q \in {} |-> "dir"]
NoPath == [windows |-> FALSE, prefix |-> FALSE, segs |-> <<>>]
PlainFile == "not json"

Last(op, at, id, dir, p, res, calls) ==
    [op |-> op, at |-> at, id |-> id, dir |-> dir, path |-> p, res |-> res,
     calls |-> calls]

NoLast == Last("none", "", "", <<>>, NoPath, Ok(<<>>), <<>>)

Idle == [pc |-> "idle", id |-> "", child |-> <<>>, path |-> <<>>,
         pending |-> <<>>, second |-> FALSE, err |-> Ok(<<>>),
         res |-> Ok(<<>>), fresh |-> FALSE]

\* The filesystem holding entry c at the configuration root, r at the
\* reserved directory and ch[id] at each identity's child directory.
FsFrom(c, r, ch) ==
    [q \in (IF c = "absent" THEN {} ELSE {ConfigRoot})
           \cup (IF r = "absent" THEN {} ELSE {ReservedDir})
           \cup { ChildPath(id) : id \in {i \in Ids : ch[i] # "absent"} } |->
        IF q = ConfigRoot THEN c
        ELSE IF q = ReservedDir THEN r
        ELSE ch[CHOOSE i \in Ids : ChildPath(i) = q]]

\* The filesystems made of the entries K in which every entry's parent is a
\* directory.
Filesystems(K) ==
    LET WellFormed(f) == \A q \in DOMAIN f : Kind(f, Parent(q)) = "dir"
    IN  { f \in { FsFrom(c, r, ch) : c \in K, r \in K, ch \in [Ids -> K] } :
            WellFormed(f) }

\* --------------------------------------------------------------- operations
\* Identity store operations on the manifest directories D.
ReadIdentity(D) ==
    \E d \in D :
        /\ last' = Last("read_identity", d, "", <<>>, NoPath,
                        read_devsecrets_id(sidecar[d]), <<>>)
        /\ UNCHANGED <<cfg, fs, store, handles, aux>>

EnsureIdentity(D) ==
    \E d \in D, n \in Uuids :
        LET e == ensure_devsecrets_id(sidecar[d], n)
        IN  /\ sidecar' = [sidecar EXCEPT ![d] = e.sidecar]
            /\ writes' = [writes EXCEPT ![d] = @ + e.writes]
            /\ issued' = [issued EXCEPT ![d] =
                            IF ~@.some /\ e.res.kind = "Ok"
                            THEN Some(e.res.val) ELSE @]
            /\ last' = Last("ensure_identity", d, "", <<>>, NoPath, e.res, <<>>)
            /\ UNCHANGED <<cfg, fs, handles, aux>>

Open ==
    LET r == new(fs, cfg)
    IN  /\ roots' = IF r.kind = "Ok" /\ r.val.some
                    THEN roots \cup {r.val.val} ELSE roots
        /\ last' = Last("open", "", "", <<>>, NoPath, r, <<>>)
        /\ UNCHANGED <<cfg, fs, store, accessors, ensured, aux>>

Ensure ==
    LET e == ensure_new(fs, cfg)
    IN  /\ fs' = e.fs
        /\ roots' = IF e.res.kind = "Ok" THEN roots \cup {e.res.val} ELSE roots
        /\ last' = Last("ensure", "", "", <<>>, NoPath, e.res, <<>>)
        /\ UNCHANGED <<cfg, store, accessors, ensured, aux>>

\* Directory operations for the identities I.
GetChild(I) ==
    \E h \in roots, id \in I :
        LET g == get_child(fs, h, id)
        IN  /\ fs' = g.fs
            /\ last' = Last("get_child", "", id, h, NoPath, g.res, <<>>)
            /\ UNCHANGED <<cfg, store, handles, aux>>

EnsureChild(I) ==
    \E h \in roots, id \in I :
        LET e == ensure_child(fs, h, id)
        IN  /\ fs' = e.fs
            /\ ensured' = IF e.res.kind = "Ok"
                          THEN ensured \cup {<<id, e.res.val>>} ELSE ensured
            /\ last' = Last("ensure_child", "", id, h, NoPath, e.res, <<>>)
            /\ UNCHANGED <<cfg, store, roots, accessors, aux>>

FromId(I) ==
    \E id \in I :
        LET r == from_id(fs, cfg, id)
        IN  /\ fs' = r.fs
            /\ accessors' = IF r.res.kind = "Ok"
                            THEN accessors \cup {r.res.val} ELSE accessors
            /\ last' = Last("from_id", "", id, <<>>, NoPath, r.res, <<>>)
            /\ UNCHANGED <<cfg, store, roots, ensured, aux>>

\* An accessor read: op names it, o is its outcome.
Read(op, dir, p, o) ==
    /\ fs' = o.fs
    /\ last' = Last(op, "", "", dir, p, o.res, o.calls)
    /\ UNCHANGED <<cfg, store, handles, aux>>

\* Accessor reads of the request paths P.
Resolve(P) ==
    \E dir \in accessors, p \in P :
        Read("resolve", dir, p, Outcome(get_relative_path(dir, p), <<>>, fs))

SourceToReader(P) ==
    \E dir \in accessors, p \in P :
        Read("to_reader", dir, p, make_reader_inner(fs, dir, p))

SourceToBytes(P) ==
    \E dir \in accessors, p \in P :
        Read("to_bytes", dir, p, read(fs, dir, p))

SourceToString(P) ==
    \E dir \in accessors, p \in P :
        Read("to_string", dir, p, read_str(fs, dir, p))

IntoValue(P) ==
    \E dir \in accessors, p \in P, fmt \in Formats :
        Read("into_value", dir, p, into_value(fs, dir, p, fmt))

\* A person stores a JSON value as token.json in a child directory.
Values == {[key |-> "abc"], [key |-> "xyz"]}
TokenJson == <<"token", "json">>

WriteSecret(I) ==
    \E id \in I, v \in Values :
        LET q == join(ChildPath(id), <<TokenJson>>)
        IN  /\ is_dir(fs, ChildPath(id))
            /\ ~is_dir(fs, q)
            /\ fs' = Put(fs, q, serialize(v))
            /\ last' = Last("write_secret", "", id, ChildPath(id),
                            RelPath(<<TokenJson>>), Ok(<<>>), <<>>)
            /\ UNCHANGED <<cfg, store, handles, aux>>

\* ------------------------------------------------- one project's lifecycle
\* The identity a crate's code and the command line tool work with is the
\* one its sidecar file holds.
ProjectIds ==
    LET r == read_devsecrets_id(sidecar[ThisCrate])
    IN  IF r.kind = "Ok" /\ r.val.some THEN {r.val.val} ELSE {}

LifecyclePaths ==
    { RelPath(<<s>>) : s \in {TokenJson, <<"secret", "txt">>, DotDotSeg} }

Init ==
    /\ cfg \in {None, Some(ConfigRoot)}
    /\ fs \in Filesystems({"absent", "dir", PlainFile})
    /\ ~cfg.some => fs = EmptyFs
    /\ sidecar \in { [d \in ManifestDirs |-> IF d = ThisCrate THEN t ELSE None] :
                       t \in {None, Some("not-a-uuid"),
                              Some(Render(1, "hyphenated_upper"))} }
    /\ writes = [d \in ManifestDirs |-> 0]
    /\ issued = [d \in ManifestDirs |-> None]
    /\ roots = {}
    /\ accessors = {}
    /\ ensured = {}
    /\ proc = [p \in Procs |-> Idle]
    /\ req = NoPath
    /\ last = NoLast

Next ==
    \/ ReadIdentity({ThisCrate})
    \/ EnsureIdentity({ThisCrate})
    \/ Open
    \/ Ensure
    \/ GetChild(ProjectIds)
    \/ EnsureChild(ProjectIds)
    \/ FromId(ProjectIds)
    \/ SourceToReader(LifecyclePaths)
    \/ SourceToBytes(LifecyclePaths)
    \/ SourceToString(LifecyclePaths)
    \/ IntoValue(LifecyclePaths)
    \/ WriteSecret(ProjectIds)

Spec == Init /\ [][Next]_vars

\* ------------------------------------------- lookups when a stat can fail
InitFault ==
    /\ cfg \in {None, Some(ConfigRoot)}
    /\ fs \in Filesystems({"absent", "dir", PlainFile, StatDenied})
    /\ ~cfg.some => fs = EmptyFs
    /\ sidecar = [d \in ManifestDirs |-> None]
    /\ writes = [d \in ManifestDirs |-> 0]
    /\ issued = [d \in ManifestDirs |-> None]
    /\ roots = {}
    /\ accessors = {}
    /\ ensured = {}
    /\ proc = [p \in Procs |-> Idle]
    /\ req = NoPath
    /\ last = NoLast

NextFault ==
    \/ Open
    \/ GetChild(Ids)
    \/ FromId(Ids)

SpecFault == InitFault /\ [][NextFault]_vars

\* --------------------------------- directories for constructed identities
InitConstructed ==
    /\ cfg = Some(ConfigRoot)
    /\ fs \in Filesystems({"absent", "dir", PlainFile})
    /\ sidecar = [d \in ManifestDirs |-> None]
    /\ writes = [d \in ManifestDirs |-> 0]
    /\ issued = [d \in ManifestDirs |-> None]
    /\ roots = {}
    /\ accessors = {}
    /\ ensured = {}
    /\ proc = [p \in Procs |-> Idle]
    /\ req = NoPath
    /\ last = NoLast

NextConstructed ==
    \/ Open
    \/ Ensure
    \/ GetChild(ConstructedIds)
    \/ EnsureChild(ConstructedIds)

SpecConstructed == InitConstructed /\ [][NextConstructed]_vars

\* -------------------------------------------------------- the identity store
InitIdentity ==
    /\ cfg = Some(ConfigRoot)
    /\ fs = EmptyFs
    /\ sidecar \in [ManifestDirs -> {None} \cup { Some(t) : t \in SidecarTexts }]
    /\ writes = [d \in ManifestDirs |-> 0]
    /\ issued = [d \in ManifestDirs |-> None]
    /\ roots = {}
    /\ accessors = {}
    /\ ensured = {}
    /\ proc = [p \in Procs |-> Idle]
    /\ req = NoPath
    /\ last = NoLast

NextIdentity ==
    \/ ReadIdentity(ManifestDirs)
    \/ EnsureIdentity(ManifestDirs)

SpecIdentity == InitIdentity /\ [][NextIdentity]_vars

\* ------------------------- two processes running ensure_devsecrets_id
\* The call's first step: read_devsecrets_id looks for the sidecar.
CallEnsureIdentity(p) ==
    LET r == read_devsecrets_id(sidecar[ThisCrate])
    IN  /\ proc[p].pc \in {"idle", "done"}
        /\ proc' = [proc EXCEPT ![p] =
                      IF r.kind # "Ok" THEN [Idle EXCEPT !.pc = "done", !.res = r]
                      ELSE IF r.val.some
                           THEN [Idle EXCEPT !.pc = "done",
                                             !.res = Ok(r.val.val)]
                      ELSE [Idle EXCEPT !.pc = "write"]]
        /\ last' = IF r.kind = "Ok" /\ ~r.val.some THEN last
                   ELSE Last("ensure_identity", ThisCrate, "", <<>>, NoPath,
                             IF r.kind # "Ok" THEN r ELSE Ok(r.val.val), <<>>)
        /\ UNCHANGED <<cfg, fs, store, handles, req>>

\* The call's second step, when no sidecar was found: a new identity is
\* written and returned.
StepWriteSidecar(p) ==
    \E n \in Uuids :
        /\ proc[p].pc = "write"
        /\ sidecar' = [sidecar EXCEPT ![ThisCrate] = Some(new_unique(n))]
        /\ writes' = [writes EXCEPT ![ThisCrate] = @ + 1]
        /\ issued' = [issued EXCEPT ![ThisCrate] =
                        IF ~@.some THEN Some(new_unique(n)) ELSE @]
        /\ proc' = [proc EXCEPT ![p] =
                      [Idle EXCEPT !.pc = "done", !.id = new_unique(n),
                                   !.res = Ok(new_unique(n))]]
        /\ last' = Last("ensure_identity", ThisCrate, "", <<>>, NoPath,
                        Ok(new_unique(n)), <<>>)
        /\ UNCHANGED <<cfg, fs, handles, req>>

InitIdentityRace ==
    /\ cfg = Some(ConfigRoot)
    /\ fs = EmptyFs
    /\ sidecar \in { [d \in ManifestDirs |-> IF d = ThisCrate THEN t ELSE None] :
                       t \in {None} \cup { Some(x) : x \in SidecarTexts } }
    /\ writes = [d \in ManifestDirs |-> 0]
    /\ issued = [d \in ManifestDirs |-> None]
    /\ roots = {}
    /\ accessors = {}
    /\ ensured = {}
    /\ proc = [p \in Procs |-> Idle]
    /\ req = NoPath
    /\ last = NoLast

NextIdentityRace ==
    \/ ReadIdentity({ThisCrate})
    \/ \E p \in Procs :
          \/ CallEnsureIdentity(p)
          \/ StepWriteSidecar(p)

SpecIdentityRace == InitIdentityRace /\ [][NextIdentityRace]_vars

\* ------------------------------------------- root and child directories
InitDirs ==
    /\ cfg \in {None, Some(ConfigRoot)}
    /\ fs \in Filesystems({"absent", "dir", PlainFile})
    /\ ~cfg.some => fs = EmptyFs
    /\ sidecar = [d \in ManifestDirs |-> None]
    /\ writes = [d \in ManifestDirs |-> 0]
    /\ issued = [d \in ManifestDirs |-> None]
    /\ roots = {}
    /\ accessors = {}
    /\ ensured = {}
    /\ proc = [p \in Procs |-> Idle]
    /\ req = NoPath
    /\ last = NoLast

NextDirs ==
    \/ Open
    \/ Ensure
    \/ GetChild(Ids)
    \/ EnsureChild(Ids)
    \/ FromId(Ids)

SpecDirs == InitDirs /\ [][NextDirs]_vars

\* ------------------------------------------------- reads of a request path
TheId == from_uuid(1)

\* Child directories holding token.json with content c (or not at all),
\* secret.txt, and a.tar.json in the subdirectory sub.
ReadFilesystem(c) ==
    LET child == ChildPath(TheId)
        base == FsFrom("dir", "dir", [i \in Ids |-> IF i = TheId THEN "dir"
                                                     ELSE "absent"])
        files == Put(Put(Put(base, join(child, <<<<"secret", "txt">>>>), "not json"),
                         join(child, <<<<"sub">>>>), "dir"),
                     join(child, <<<<"sub">>, <<"a", "tar", "json">>>>),
                     serialize([key |-> "xyz"]))
    IN  IF c = "absent" THEN files
        ELSE Put(files, join(child, <<TokenJson>>), c)

InitRead ==
    /\ cfg = Some(ConfigRoot)
    /\ fs \in { ReadFilesystem(c) : c \in FileContents \cup {"absent"} }
    /\ sidecar = [d \in ManifestDirs |-> None]
    /\ writes = [d \in ManifestDirs |-> 0]
    /\ issued = [d \in ManifestDirs |-> None]
    /\ roots = {}
    /\ accessors = {ChildPath(TheId)}
    /\ ensured = {}
    /\ proc = [p \in Procs |-> Idle]
    /\ req \in ReqPaths
    /\ last = NoLast

\* Each behaviour applies one read to its request path.
NextRead ==
    \/ (last = NoLast /\ Resolve({req}))
    \/ (last = NoLast /\ SourceToReader({req}))
    \/ (last = NoLast /\ SourceToBytes({req}))
    \/ (last = NoLast /\ SourceToString({req}))
    \/ (last = NoLast /\ IntoValue({req}))

SpecRead == InitRead /\ [][NextRead]_vars

\* ------------------------------------ ensure_child run by racing processes
\* The current create_dir_all frame of call r returned Ok: the call is done,
\* or the frame above goes on to its second mkdir.
FrameOk(r) ==
    IF r.pending = <<>>
    THEN [r EXCEPT !.pc = "done", !.res = Ok(r.child)]
    ELSE [r EXCEPT !.pc = "mkdir", !.path = Head(r.pending),
                   !.pending = Tail(r.pending), !.second = TRUE]

CallEnsureChild(p) ==
    \E h \in roots, id \in Ids :
        /\ proc[p].pc \in {"idle", "done"}
        /\ proc' = [proc EXCEPT ![p] =
                      [pc |-> "mkdir", id |-> id, child |-> join_path(h, id_path(id)),
                       path |-> join_path(h, id_path(id)), pending |-> <<>>,
                       second |-> FALSE, err |-> Ok(<<>>), res |-> Ok(<<>>),
                       fresh |-> ~exists(fs, join_path(h, id_path(id)))]]
        /\ UNCHANGED <<cfg, fs, store, handles, req, last>>

StepMkdir(p) ==
    LET r == proc[p]
        m == mkdir(fs, r.path)
    IN  /\ r.pc = "mkdir"
        /\ fs' = m.fs
        /\ proc' = [proc EXCEPT ![p] =
                      IF m.res.kind = "Ok" THEN FrameOk(r)
                      ELSE IF m.res.kind = "NotFound" /\ ~r.second
                           THEN IF Parent(r.path) = <<>>
                                THEN [r EXCEPT !.second = TRUE]
                                ELSE [r EXCEPT !.pending = <<r.path>> \o @,
                                               !.path = Parent(r.path)]
                      ELSE [r EXCEPT !.pc = "is_dir", !.err = m.res]]
        /\ UNCHANGED <<cfg, store, handles, req, last>>

StepIsDir(p) ==
    LET r == proc[p]
        t == tolerate_existing(fs, r.path, r.err)
    IN  /\ r.pc = "is_dir"
        /\ proc' = [proc EXCEPT ![p] =
                      IF t.kind = "Ok" THEN FrameOk(r)
                      ELSE [r EXCEPT !.pc = "done", !.res = t]]
        /\ UNCHANGED <<cfg, fs, store, handles, req, last>>

\* Both processes hold a root handle; the root directory holds only what
\* this system creates there, directories.
InitRace ==
    /\ cfg = Some(ConfigRoot)
    /\ fs \in { f \in Filesystems({"absent", "dir"}) : is_dir(f, ReservedDir) }
    /\ sidecar = [d \in ManifestDirs |-> None]
    /\ writes = [d \in ManifestDirs |-> 0]
    /\ issued = [d \in ManifestDirs |-> None]
    /\ roots = {ReservedDir}
    /\ accessors = {}
    /\ ensured = {}
    /\ proc = [p \in Procs |-> Idle]
    /\ req = NoPath
    /\ last = NoLast

NextRace ==
    \E p \in Procs :
        \/ CallEnsureChild(p)
        \/ StepMkdir(p)
        \/ StepIsDir(p)

SpecRace == InitRace /\ [][NextRace]_vars

\* ==================================================================== claims
HasParentDir(p) == \E i \in 1..Len(p.segs) : p.segs[i] = DotDotSeg
StartsAtRoot(p) == Len(p.segs) >= 2 /\ p.segs[1] = EmptySeg

\* C1: a request path that is absolute or holds a "..", a root marker or a
\* drive prefix makes resolve, to_reader, to_bytes and to_string fail with
\* InvalidRelativePath, and no filesystem call is made for it.
C1_InvalidPathRejectedBeforeIo ==
    (/\ last.op \in {"resolve", "to_reader", "to_bytes", "to_string"}
     /\ (HasParentDir(last.path) \/ StartsAtRoot(last.path) \/ last.path.prefix))
    => (last.res.kind = "InvalidRelativePath" /\ last.calls = <<>>)

C1_Witness ==
    /\ last.op = "to_bytes"
    /\ last.path = RelPath(<<DotDotSeg, TokenJson>>)
    /\ last.res.kind = "InvalidRelativePath"
    /\ last.calls = <<>>

\* The directory dir followed by at least one plain name.
StrictlyInside(q, dir) ==
    /\ Len(q) > Len(dir)
    /\ SubSeq(q, 1, Len(dir)) = dir
    /\ \A i \in (Len(dir) + 1)..Len(q) : q[i] \notin {EmptySeg, DotSeg, DotDotSeg}

AllPlainNames(p) ==
    /\ ~is_absolute(p)
    /\ \A i \in 1..Len(components(p)) : components(p)[i].kind = "Normal"

\* C2: for every relative path all of whose components are plain names,
\* resolve succeeds and the path it returns names an entry strictly inside
\* the child directory, never the child directory itself.
C2_ResolveStrictlyInside ==
    (last.op = "resolve" /\ AllPlainNames(last.path))
    => (/\ last.res.kind = "Ok"
        /\ StrictlyInside(Locate(last.res.val), last.dir))

\* C5: into_value fails with InvalidExtension, with no filesystem call made,
\* whenever the final suffix of the request path is not exactly the format's
\* extension; a.tar.json passes the check, secret.txt, x.JSON and a name
\* without extension do not.
FinalSuffixIs(p, ext) == extension(p).some /\ extension(p).val = ext

C5_ExtensionCheckedBeforeIo ==
    last.op = "into_value" =>
        /\ ~FinalSuffixIs(last.path, "json")
              => (last.res.kind = "InvalidExtension" /\ last.calls = <<>>)
        /\ last.path.segs = << <<"a", "tar", "json">> >>
              => last.res.kind # "InvalidExtension"
        /\ last.path.segs \in { << <<"secret", "txt">> >>, << <<"x", "JSON">> >>,
                                << <<"noext">> >> }
              => (last.res.kind = "InvalidExtension" /\ last.calls = <<>>)

C5_Witness ==
    /\ last.op = "into_value"
    /\ last.path = RelPath(<< <<"secret", "txt">> >>)
    /\ IsFile(fs, join(last.dir, << <<"secret", "txt">> >>))
    /\ last.res.kind = "InvalidExtension"
    /\ last.calls = <<>>

\* C3: ensure_identity is idempotent.  Every call that returns an identity
\* for a manifest directory returns the same one, read_identity after it
\* returns that identity too, the sidecar is written at most once and only
\* by an ensure_identity call that found it absent (which does write it),
\* and a sidecar that exists is never written again.
C3_EnsureIdentityIdempotent ==
    /\ [](\A d \in ManifestDirs :
            /\ writes[d] <= 1
            /\ writes[d] = 1 => (issued[d].some /\ sidecar[d] = issued[d])
            /\ (last.op = "ensure_identity" /\ last.at = d
                    /\ last.res.kind = "Ok")
                  => (issued[d].some /\ last.res.val = issued[d].val)
            /\ (last.op = "read_identity" /\ last.at = d /\ issued[d].some)
                  => last.res = Ok(issued[d]))
    /\ [][\A d \in ManifestDirs :
            /\ sidecar[d].some => sidecar'[d] = sidecar[d]
            /\ writes'[d] # writes[d]
                  => (/\ ~sidecar[d].some
                      /\ last'.op = "ensure_identity" /\ last'.at = d
                      /\ writes'[d] = writes[d] + 1)
            /\ (last'.op = "ensure_identity" /\ last'.at = d
                    /\ ~sidecar[d].some)
                  => (writes'[d] = 1 /\ sidecar'[d] = Some(last'.res.val))]_vars

C3_Witness ==
    /\ writes[ThisCrate] = 1
    /\ last.op = "read_identity"
    /\ last.at = ThisCrate
    /\ last.res = Ok(issued[ThisCrate])
    /\ sidecar[ThisCrate] = issued[ThisCrate]

\* The sidecar file exists and its content is no text form of a UUID.
Corrupt(sc) ==
    sc.some /\ sc.val \notin { Render(n, f) : n \in Uuids, f \in ParsedForms }

\* C4: when the sidecar exists but does not parse as a UUID, ensure_identity
\* and read_identity both fail with the corrupt-identity error (InvalidData),
\* and the call leaves the sidecar as it was.
C4_CorruptSidecarFails ==
    [][(last'.op \in {"ensure_identity", "read_identity"}
            /\ Corrupt(sidecar[last'.at]))
          => (/\ last'.res = Err("InvalidData")
              /\ sidecar' = sidecar
              /\ writes' = writes)]_vars

C4_Witness ==
    /\ last.op = "ensure_identity"
    /\ sidecar[last.at] = Some("not-a-uuid")
    /\ last.res = Err("InvalidData")
    /\ writes[last.at] = 0

\* C6: with the reserved directory's path known, from_identity reports
\* NotInitialized when nothing exists at the reserved path, or when the
\* reserved directory is there and nothing exists at the identity's child
\* path; it returns an accessor, bound to <root>/<identity>, exactly when
\* both exist as directories; and it creates nothing.
C6_FromIdentityNotInitialized ==
    [][last'.op = "from_id" =>
          LET child == join(join(ConfigRoot, <<DEVSECRETS_CONFIG_DIR>>),
                            << <<last'.id>> >>)
              root == join(ConfigRoot, <<DEVSECRETS_CONFIG_DIR>>)
          IN  /\ (cfg.some /\ Kind(fs, root) = "absent")
                    => last'.res = Err("DirectoryNotInitialized")
              /\ (cfg.some /\ Kind(fs, root) = "dir"
                      /\ Kind(fs, child) = "absent")
                    => last'.res = Err("DirectoryNotInitialized")
              /\ last'.res.kind = "Ok"
                    <=> (cfg.some /\ Kind(fs, root) = "dir"
                           /\ Kind(fs, child) = "dir")
              /\ last'.res.kind = "Ok"
                    => (last'.res.val = child /\ child \in accessors')
              /\ fs' = fs]_vars

C6_Witness ==
    /\ last.op = "from_id"
    /\ last.res = Err("DirectoryNotInitialized")
    /\ Kind(fs, ReservedDir) = "dir"
    /\ Kind(fs, ChildPath(last.id)) = "absent"
    /\ \E id \in Ids : ChildPath(id) \in accessors

\* C8: ensure() creates every missing directory of <configuration root>/
\* <reserved name> and succeeds; it fails only if the configuration root
\* cannot be determined or an existing entry on that path is not a directory.
C8_EnsureCreatesMissingDirectories ==
    [][last'.op = "ensure" =>
          LET blocked == \/ ~cfg.some
                         \/ IsFile(fs, ConfigRoot)
                         \/ IsFile(fs, ReservedDir)
          IN  /\ ~blocked => last'.res.kind = "Ok"
              /\ last'.res.kind = "Ok" => is_dir(fs', ReservedDir)]_vars

\* C7: ensure_child is idempotent under every ordering: every ensure_child
\* call, made after another or while another process runs one for the same
\* identity, ends without error and yields <root>/<identity>, which is a
\* directory from then on.
C7_EnsureChildIdempotent ==
    \A p \in Procs :
        proc[p].pc = "done" =>
            /\ proc[p].res = Ok(join(join(ConfigRoot, <<DEVSECRETS_CONFIG_DIR>>),
                                     << <<proc[p].id>> >>))
            /\ is_dir(fs, proc[p].res.val)

\* Both processes began ensure_child for the same identity while its
\* directory was missing, and both have returned.
C7_Witness ==
    /\ proc["p1"].pc = "done" /\ proc["p2"].pc = "done"
    /\ proc["p1"].id = proc["p2"].id
    /\ proc["p1"].fresh /\ proc["p2"].fresh
    /\ proc["p1"].res = Ok(ChildPath(proc["p1"].id))
    /\ proc["p2"].res = proc["p1"].res

\* C9: once ensure_child(u) has returned p, p is <config>/<reserved>/<u> and
\* is a directory, every later from_identity(u) succeeds and is bound to p,
\* and read_typed("token.json", JSON) through that accessor returns the value
\* stored in the file p/token.json.
C9_InitThenAccess ==
    \A e \in ensured :
        LET u == e[1]
            p == e[2]
            token == p \o <<TokenJson>>
        IN  /\ p = <<<<"", "config">>, <<"rust-devsecrets">>, <<u>>>>
            /\ is_dir(fs, p)
            /\ (last.op = "from_id" /\ last.id = u)
                  => (last.res = Ok(p) /\ p \in accessors)
            /\ (last.op = "into_value" /\ last.dir = p
                    /\ last.path = RelPath(<<TokenJson>>))
                  => /\ last.calls = <<Call("open", token)>>
                     /\ \A v \in Values :
                          Kind(fs, token) = serialize(v) => last.res = Ok(v)
                     /\ Kind(fs, token) = "absent"
                          => last.res = FileError("NotFound")

\* ensure_identity created the sidecar with u, ensure_child(u) returned p,
\* and a token.json written under p was read back through from_identity(u).
C9_Witness ==
    /\ writes[ThisCrate] = 1
    /\ <<issued[ThisCrate].val, ChildPath(issued[ThisCrate].val)>> \in ensured
    /\ last.op = "into_value"
    /\ last.dir = ChildPath(issued[ThisCrate].val)
    /\ last.path = RelPath(<<TokenJson>>)
    /\ last.res = Ok([key |-> "abc"])

LookupOps ==
    {"read_identity", "open", "get_child", "from_id",
     "to_reader", "to_bytes", "to_string", "into_value"}

\* C10: read_identity, open, get_child, from_identity and the accessor reads
\* leave the filesystem and the sidecar as they were, whatever they return;
\* only ensure_identity, ensure, ensure_child (and a person storing a secret)
\* change them.
C10_LookupsChangeNothing ==
    [][/\ last'.op \in LookupOps => (fs' = fs /\ sidecar' = sidecar)
       /\ (fs' # fs \/ sidecar' # sidecar)
             => last'.op \in {"ensure_identity", "ensure", "ensure_child",
                              "write_secret"}]_vars

\* get_child reported absence with the root directory there.
C10_Witness ==
    /\ last.op = "get_child"
    /\ last.res = Ok(None)
    /\ is_dir(fs, ReservedDir)
    /\ ~exists(fs, ChildPath(last.id))

C11_RootWithoutChildren ==
    /\ last.op = "ensure"
    /\ last.res.kind = "Ok"
    /\ is_dir(fs, ReservedDir)
    /\ \A id \in Ids : ~exists(fs, ChildPath(id))

\* C12: read_typed (into_value) resolves the path before it checks the
\* extension: a path that is absolute or contains `..` fails with
\* InvalidRelativePath whatever its extension, and InvalidExtension is
\* reported only for a path that get_relative_path accepts.
C12_ResolveBeforeExtension ==
    last.op = "into_value" =>
        /\ (HasParentDir(last.path) \/ StartsAtRoot(last.path)
                \/ last.path.prefix)
              => last.res.kind = "InvalidRelativePath"
        /\ last.res.kind = "InvalidExtension"
              => get_relative_path(last.dir, last.path).kind = "Ok"

\* What into_value does instead: the extension is checked first, so an
\* invalid path is reported as InvalidRelativePath only when its final
\* extension is the format's.
C12_ExtensionBeforeResolve ==
    last.op = "into_value" =>
        /\ ~FinalSuffixIs(last.path, "json")
              => last.res.kind = "InvalidExtension"
        /\ (FinalSuffixIs(last.path, "json")
                /\ get_relative_path(last.dir, last.path).kind # "Ok")
              => last.res.kind = "InvalidRelativePath"

\* C13: from_identity reports NotInitialized only when the reserved root path
\* or the child path does not exist; when the stat of either path fails with
\* an I/O error, or a non-directory occupies it, the outcome is an error
\* other than NotInitialized.
C13_NotInitializedOnlyWhenAbsent ==
    last.op = "from_id" =>
        LET root == Kind(fs, ReservedDir)
            child == Kind(fs, ChildPath(last.id))
        IN  /\ last.res = Err("DirectoryNotInitialized")
                  => (root = "absent" \/ (root = "dir" /\ child = "absent"))
            /\ (\/ root \in {StatDenied, PlainFile}
                \/ (root = "dir" /\ child \in {StatDenied, PlainFile}))
                  => last.res.kind \notin {"Ok", "DirectoryNotInitialized"}

\* What from_id does instead: Path::exists answers false for a path whose
\* stat fails, so a failed probe is reported as NotInitialized; only a
\* non-directory is reported as an error.
C13_StatFailureReadAsAbsent ==
    last.op = "from_id" =>
        LET root == Kind(fs, ReservedDir)
            child == Kind(fs, ChildPath(last.id))
        IN  /\ (cfg.some /\ (root = StatDenied
                               \/ (root = "dir" /\ child = StatDenied)))
                  => last.res = Err("DirectoryNotInitialized")
            /\ (cfg.some /\ (root = PlainFile
                               \/ (root = "dir" /\ child = PlainFile)))
                  => last.res = Err("IoError")

\* C14: every Identity that reaches get_child or ensure_child is a canonical
\* lowercase hyphenated UUID string, so the path they join is a direct child
\* <Root Directory>/<identity string> of the Root Directory, never the root
\* itself, an ancestor or an unrelated absolute path.
C14_IdentityIsCanonicalChild ==
    last.op \in {"get_child", "ensure_child"} =>
        LET child_dir == join_path(last.dir, id_path(last.id))
        IN  /\ \E n \in Uuids : last.id = from_uuid(n)
            /\ child_dir = join(ReservedDir, << <<last.id>> >>)
            /\ Walk(child_dir) # ReservedDir
            /\ Parent(Walk(child_dir)) = ReservedDir

\* What the code guarantees: an identity made by from_uuid or new_unique, or
\* read from a sidecar, is canonical and joins to a direct child.
C14_IssuedIdentityIsCanonicalChild ==
    (last.op \in {"get_child", "ensure_child"} /\ last.id \in Ids) =>
        LET child_dir == join_path(last.dir, id_path(last.id))
        IN  /\ child_dir = join(ReservedDir, << <<last.id>> >>)
            /\ Parent(Walk(child_dir)) = ReservedDir

\* C15: when two processes run ensure_identity on the same project directory
\* with their check and write steps interleaved, both calls return the same
\* Identity, that Identity is the one in the sidecar once both have
\* returned, and the sidecar never changes after it first holds a valid
\* identity.
C15_RacingEnsureIdentityAgree ==
    /\ [](\A p \in Procs, q \in Procs :
            (/\ proc[p].pc = "done" /\ proc[p].res.kind = "Ok"
             /\ proc[q].pc = "done" /\ proc[q].res.kind = "Ok")
            => /\ proc[p].res = proc[q].res
               /\ read_devsecrets_id(sidecar[ThisCrate])
                     = Ok(Some(proc[p].res.val)))
    /\ [][LET r == read_devsecrets_id(sidecar[ThisCrate])
          IN  (r.kind = "Ok" /\ r.val.some)
                  => sidecar'[ThisCrate] = sidecar[ThisCrate]]_vars

\* What holds of the interleaved calls: every call returns an identity that
\* was at some time the sidecar's, and the sidecar, once written, always
\* holds the identity of the last write.
C15_EachCallReturnsAWrittenIdentity ==
    \A p \in Procs :
        (proc[p].pc = "done" /\ proc[p].res.kind = "Ok")
            => /\ proc[p].res.val \in Ids
               /\ read_devsecrets_id(sidecar[ThisCrate]).kind = "Ok"
               /\ read_devsecrets_id(sidecar[ThisCrate]).val.some
               /\ writes[ThisCrate] <= 2
====
